---- MODULE Spec2Model ----
(***************************************************************************)
(* Model of the news MCP server: five tools (Hacker News, Wall Street      *)
(* Journal, TechCrunch, AI News, Wired), each an async function that       *)
(* awaits one HTTP fetch and then parses and formats the feed.             *)
(*                                                                         *)
(* Python strings are sequences of lexical tokens.  A token is a record    *)
(* [k, v, a]: k = "text" is a run of characters, k = "open" / "close" /    *)
(* "empty" is an XML tag with name v and attributes a.  Every literal of   *)
(* the source that startswith() can tell apart is split at that point, so  *)
(* "HTTP Error fetching RSS: " is the three tokens "HTTP ", "Error",       *)
(* " fetching RSS: ".  Python's None is the one-token sequence PyNone.     *)
(***************************************************************************)
EXTENDS Integers, Sequences, FiniteSets, TLC

(***************************************************************************)
(* Bounds                                                                  *)
(***************************************************************************)
MaxItems == 2
MaxCount == 3
MaxNegCount == 2
MaxBullets == 2
MaxCreators == 3
MaxCalls == 2

(***************************************************************************)
(* Python strings and None                                                 *)
(***************************************************************************)
Txt(s) == [k |-> "text", v |-> s, a |-> {}]
S(s) == <<Txt(s)>>
Open(tag, attrs) == [k |-> "open", v |-> tag, a |-> attrs]
Close(tag) == [k |-> "close", v |-> tag, a |-> {}]
Empty(tag, attrs) == [k |-> "empty", v |-> tag, a |-> attrs]

PyNone == <<[k |-> "None", v |-> "None", a |-> {}]>>

\* bool(x) of a value that is None or a str
Truthy(x) == x # PyNone /\ x # <<>>

\* the text an f-string writes for a value that is None or a str
FStr(x) == IF x = PyNone THEN S("None") ELSE x

StartsWith(s, p) == Len(s) >= Len(p) /\ SubSeq(s, 1, Len(p)) = p

Min(a, b) == IF a <= b THEN a ELSE b
Max(a, b) == IF a >= b THEN a ELSE b

\* list[:stop] for any integer stop
PySlice(list, stop) ==
    IF stop >= 0
    THEN SubSeq(list, 1, Min(stop, Len(list)))
    ELSE SubSeq(list, 1, Max(Len(list) + stop, 0))

RECURSIVE Join(_, _)
\* sep.join(list) for a list of strings
Join(sep, list) ==
    IF list = <<>> THEN <<>>
    ELSE IF Len(list) = 1 THEN list[1]
    ELSE list[1] \o sep \o Join(sep, Tail(list))

RECURSIVE Flatten(_)
Flatten(list) == IF list = <<>> THEN <<>> ELSE list[1] \o Flatten(Tail(list))

RECURSIVE Chars(_)
\* the characters of a string, its tokens run together
Chars(s) ==
    IF s = <<>> THEN ""
    ELSE IF Len(s) = 1 THEN s[1].v
    ELSE Chars(SubSeq(s, 1, Len(s) \div 2)) \o Chars(SubSeq(s, Len(s) \div 2 + 1, Len(s)))

\* sub in s
Contains(s, sub) ==
    \E i \in 0..(Len(s) - Len(sub)) : SubSeq(s, i + 1, i + Len(sub)) = sub

\* the elements of a sequence at the indices in keep, in order
SelectAt(list, keep) ==
    LET F[i \in 0..Len(list)] ==
            IF i = 0 THEN <<>>
            ELSE IF i \in keep THEN Append(F[i - 1], list[i]) ELSE F[i - 1]
    IN F[Len(list)]

(***************************************************************************)
(* Results of calls: a returned value or a raised exception                *)
(***************************************************************************)
Return(v) == [raised |-> FALSE, exc |-> "", msg |-> <<>>, value |-> v]
Raise(e, m) == [raised |-> TRUE, exc |-> e, msg |-> m, value |-> <<>>]

(***************************************************************************)
(* xml.etree.ElementTree: elements and ET.fromstring                       *)
(***************************************************************************)
Element(tag, attrs, text, children) ==
    [tag |-> tag, attrib |-> attrs, text |-> text, children |-> children]

\* what find() returns when nothing matches
NoElement == Element("", {}, PyNone, <<>>)

\* "name" in el.attrib, el.attrib[name], el.attrib.get(name, default)
HasAttr(el, name) == \E p \in el.attrib : p[1] = name
Attr(el, name) == S((CHOOSE p \in el.attrib : p[1] = name)[2])
AttrGet(el, name, default) == IF HasAttr(el, name) THEN Attr(el, name) ELSE default

RECURSIVE ParseElement(_, _)
RECURSIVE ParseContent(_, _, _, _)
\* the element that starts at token i of s, and the index after it
ParseElement(s, i) ==
    IF s[i].k = "empty"
    THEN [err |-> "", el |-> Element(s[i].v, s[i].a, PyNone, <<>>), next |-> i + 1]
    ELSE ParseContent(s, i + 1, Element(s[i].v, s[i].a, PyNone, <<>>), FALSE)

\* the index after the run of text tokens that starts at token j
TextEnd(s, j) ==
    LET stops == {k \in j..Len(s) : s[k].k # "text"}
    IN IF stops = {} THEN Len(s) + 1 ELSE CHOOSE k \in stops : \A h \in stops : k <= h

\* the content of element el from token j on; the text before the first child
\* is el.text, the tail text after a child is dropped
ParseContent(s, j, el, afterChild) ==
    IF j > Len(s)
    THEN [err |-> "no element found", el |-> NoElement, next |-> j]
    ELSE IF s[j].k = "text"
    THEN IF afterChild
         THEN ParseContent(s, TextEnd(s, j), el, afterChild)
         ELSE ParseContent(s, TextEnd(s, j),
                  [el EXCEPT !.text = SubSeq(s, j, TextEnd(s, j) - 1)], afterChild)
    ELSE IF s[j].k = "close"
    THEN IF s[j].v = el.tag
         THEN [err |-> "", el |-> el, next |-> j + 1]
         ELSE [err |-> "mismatched tag", el |-> NoElement, next |-> j]
    ELSE LET r == ParseElement(s, j)
         IN IF r.err # "" THEN r
            ELSE ParseContent(s, r.next,
                     [el EXCEPT !.children = Append(@, r.el)], TRUE)

\* ET.fromstring(text): the root element, or ParseError with expat's diagnostic
\* (the "line 1, column n" suffix of the diagnostic is left out)
FromString(s) ==
    IF s = <<>> THEN Raise("ParseError", S("no element found"))
    ELSE IF s[1].k = "close"
    THEN Raise("ParseError", S("not well-formed (invalid token)"))
    ELSE IF s[1].k \notin {"open", "empty"}
    THEN Raise("ParseError", S("syntax error"))
    ELSE LET r == ParseElement(s, 1)
         IN IF r.err # "" THEN Raise("ParseError", S(r.err))
            ELSE IF r.next <= Len(s)
            THEN IF s[r.next].k = "close"
                 THEN Raise("ParseError", S("not well-formed (invalid token)"))
                 ELSE Raise("ParseError", S("junk after document element"))
            ELSE Return(r.el)

RECURSIVE Descendants(_)
RECURSIVE DescendantsOfAll(_)
\* every element below el, in document order
Descendants(el) == DescendantsOfAll(el.children)
DescendantsOfAll(els) ==
    IF els = <<>> THEN <<>>
    ELSE <<els[1]>> \o Descendants(els[1]) \o DescendantsOfAll(Tail(els))

FirstOf(els) == IF els = <<>> THEN NoElement ELSE els[1]

\* el.findall(tag), el.find(tag): direct children
WithTag(els, tag) == SelectAt(els, {i \in 1..Len(els) : els[i].tag = tag})
FindAll(el, tag) == WithTag(el.children, tag)
Find(el, tag) == FirstOf(FindAll(el, tag))

\* el.findall(".//tag"), el.find(".//tag"): all descendants
FindAllDeep(el, tag) == WithTag(Descendants(el), tag)
FindDeep(el, tag) == FirstOf(FindAllDeep(el, tag))

\* el.find("*//tag"): below the children, so grandchildren and deeper
FindBelowChildren(el, tag) ==
    FirstOf(WithTag(Flatten([i \in 1..Len(el.children) |-> Descendants(el.children[i])]),
                    tag))

(***************************************************************************)
(* Namespaced tag names, as ElementTree resolves them                      *)
(***************************************************************************)
DcCreator == "{http://purl.org/dc/elements/1.1/}creator"
DcSubject == "{http://purl.org/dc/elements/1.1/}subject"
MediaContent == "{http://search.yahoo.com/mrss/}content"
MediaThumbnail == "{http://search.yahoo.com/mrss/}thumbnail"
ContentEncoded == "{http://purl.org/rss/1.0/modules/content/}encoded"

(***************************************************************************)
(* Python dicts are records; a list of dicts is a sequence of records      *)
(***************************************************************************)
HasKey(d, key) == key \in DOMAIN d
Get(d, key, default) == IF key \in DOMAIN d THEN d[key] ELSE default

\* [c.text for c in els if c.text]
TextsOf(els) ==
    LET kept == SelectAt(els, {i \in 1..Len(els) : Truthy(els[i].text)})
    IN [i \in 1..Len(kept) |-> kept[i].text]

(***************************************************************************)
(* httpx: what client.get can do, and the classes of its exceptions        *)
(***************************************************************************)
\* the classes an exception of class cls is an instance of
Bases(cls) ==
    CASE cls = "HTTPStatusError" -> {"HTTPStatusError", "HTTPError", "Exception"}
      [] cls = "ReadTimeout" -> {"ReadTimeout", "TimeoutException", "TransportError",
                                 "RequestError", "HTTPError", "Exception"}
      [] cls = "ConnectError" -> {"ConnectError", "NetworkError", "TransportError",
                                  "RequestError", "HTTPError", "Exception"}
      [] cls = "InvalidURL" -> {"InvalidURL", "Exception"}
      [] OTHER -> {cls, "Exception"}

IsInstance(cls, base) == base \in Bases(cls)

IsSuccess(status) == 200 <= status /\ status <= 299

\* response.raise_for_status()
RaiseForStatus(response) ==
    IF IsSuccess(response.status)
    THEN Return(response)
    ELSE Raise("HTTPStatusError", S("status error"))

\* await client.get(...); response.raise_for_status(); response.text
\* net is what the network does: a response, or an exception raised by get
GetText(net) ==
    IF net.kind = "raise" THEN Raise(net.exc, net.msg)
    ELSE LET r == RaiseForStatus(net)
         IN IF r.raised THEN r ELSE Return(net.text)

(***************************************************************************)
(* Fetchers: the body of a 2xx response, or a sentinel string              *)
(***************************************************************************)
\* the except clauses are tried in the order they are written
fetch_hn_rss(feed_url, net) ==
    LET r == GetText(net)
    IN IF ~r.raised THEN r
       ELSE IF IsInstance(r.exc, "HTTPError")
       THEN Return(S("HTTP ") \o S("Error") \o S(" fetching RSS: ") \o r.msg)
       ELSE IF IsInstance(r.exc, "TimeoutException")
       THEN Return(S("Timeout") \o S(" fetching RSS from ") \o feed_url)
       ELSE IF IsInstance(r.exc, "Exception")
       THEN Return(S("Error") \o S(" fetching RSS: ") \o r.msg)
       ELSE r

fetch_tc_rss(feed_url, net) ==
    LET r == GetText(net)
    IN IF ~r.raised THEN r
       ELSE IF IsInstance(r.exc, "HTTPError")
       THEN Return(S("HTTP ") \o S("Error") \o S(" fetching RSS: ") \o r.msg)
       ELSE IF IsInstance(r.exc, "TimeoutException")
       THEN Return(S("Timeout") \o S(" fetching RSS from ") \o feed_url)
       ELSE IF IsInstance(r.exc, "Exception")
       THEN Return(S("Error") \o S(" fetching RSS: ") \o r.msg)
       ELSE r

fetch_wsj_rss(feed_url, net) ==
    LET r == GetText(net)
    IN IF ~r.raised THEN r
       ELSE IF IsInstance(r.exc, "HTTPError")
       THEN Return(S("HTTP ") \o S("Error") \o S(" fetching RSS: ") \o r.msg)
       ELSE IF IsInstance(r.exc, "TimeoutException")
       THEN Return(S("Timeout") \o S(" fetching RSS from ") \o feed_url)
       ELSE IF IsInstance(r.exc, "Exception")
       THEN Return(S("Error") \o S(" fetching RSS: ") \o r.msg)
       ELSE r

fetch_ainews_rss(feed_url, net) ==
    LET r == GetText(net)
    IN IF ~r.raised THEN r
       ELSE IF IsInstance(r.exc, "HTTPError")
       THEN Return(S("HTTP ") \o S("Error") \o S(" fetching RSS: ") \o r.msg)
       ELSE IF IsInstance(r.exc, "TimeoutException")
       THEN Return(S("Timeout") \o S(" fetching RSS from ") \o feed_url)
       ELSE IF IsInstance(r.exc, "Exception")
       THEN Return(S("Error") \o S(" fetching RSS: ") \o r.msg)
       ELSE r

fetch_wired_rss(feed_url, net) ==
    LET r == GetText(net)
    IN IF ~r.raised THEN r
       ELSE IF IsInstance(r.exc, "HTTPError")
       THEN Return(S("HTTP ") \o S("Error") \o S(" fetching RSS: ") \o r.msg)
       ELSE IF IsInstance(r.exc, "TimeoutException")
       THEN Return(S("Timeout") \o S(" fetching RSS from ") \o feed_url)
       ELSE IF IsInstance(r.exc, "Exception")
       THEN Return(S("Error") \o S(" fetching RSS: ") \o r.msg)
       ELSE r

(***************************************************************************)
(* Parsers: a list of article dicts, or a list of one error dict           *)
(***************************************************************************)
ErrorRecord(message) == [error |-> message]

ParsingXML(msg) == S("Error") \o S(" parsing XML: ") \o msg
ParsingRSS(msg) == S("Error") \o S(" parsing RSS: ") \o msg
NoChannel == S("Invalid RSS format: No channel element found")

\* item.find(tag).text if item.find(tag) is not None else default
TextIfPresent(item, tag, default) ==
    IF Find(item, tag) # NoElement THEN Find(item, tag).text ELSE default

hn_story(item) ==
    [title |-> TextIfPresent(item, "title", S("No title")),
     link |-> TextIfPresent(item, "link", <<>>),
     description |-> TextIfPresent(item, "description", S("No description")),
     pubDate |-> TextIfPresent(item, "pubDate", <<>>)]

\* parse_hn_rss without its try/except
parse_hn_rss_uncaught(rss_content) ==
    LET r == FromString(rss_content)
    IN IF r.raised THEN r
       ELSE LET items == FindAllDeep(r.value, "item")
            IN Return([i \in 1..Len(items) |-> hn_story(items[i])])

parse_hn_rss(rss_content) ==
    LET r == FromString(rss_content)
    IN IF r.raised
       THEN IF IsInstance(r.exc, "Exception")
            THEN Return(<<ErrorRecord(ParsingRSS(r.msg))>>)
            ELSE r
       ELSE LET items == FindAllDeep(r.value, "item")
            IN Return([i \in 1..Len(items) |-> hn_story(items[i])])

\* techcrunch.get_element_text and wired.get_element_text
get_element_text(element, tag, default) ==
    LET el == Find(element, tag)
    IN IF el # NoElement /\ Truthy(el.text) THEN el.text ELSE default

\* wsj.get_element_text
wsj_get_element_text(element, tag, default) ==
    LET el0 == Find(element, tag)
        el == IF el0 = NoElement
              THEN IF tag = "creator"
                   THEN FindDeep(element, DcCreator)
                   ELSE FindBelowChildren(element, tag)
              ELSE el0
    IN IF el # NoElement /\ Truthy(el.text) THEN el.text ELSE default

tc_article(item) ==
    LET author_el == FindDeep(item, DcCreator)
        guid_element == Find(item, "guid")
        category_els == FindAll(item, "category")
    IN [title |-> get_element_text(item, "title", S("No title")),
        link |-> get_element_text(item, "link", <<>>),
        pubDate |-> get_element_text(item, "pubDate", <<>>),
        description |-> get_element_text(item, "description", S("No description")),
        author |-> IF author_el # NoElement /\ Truthy(author_el.text) THEN author_el.text ELSE <<>>,
        guid |-> IF guid_element # NoElement
                 THEN IF Truthy(guid_element.text) THEN guid_element.text ELSE <<>>
                 ELSE <<>>,
        guid_permalink |-> IF guid_element # NoElement
                           THEN AttrGet(guid_element, "isPermaLink", S("false"))
                           ELSE S("false"),
        categories |-> IF category_els # <<>> THEN TextsOf(category_els) ELSE <<>>]

\* parse_tc_rss without the channel check: the items are looked up from the root
parse_tc_rss_unchecked(rss_content) ==
    LET r == FromString(rss_content)
    IN IF r.raised
       THEN IF IsInstance(r.exc, "ParseError")
            THEN Return(<<ErrorRecord(ParsingXML(r.msg))>>)
            ELSE IF IsInstance(r.exc, "Exception")
            THEN Return(<<ErrorRecord(ParsingRSS(r.msg))>>)
            ELSE r
       ELSE LET items == FindAllDeep(r.value, "item")
            IN Return([i \in 1..Len(items) |-> tc_article(items[i])])

parse_tc_rss(rss_content) ==
    LET r == FromString(rss_content)
    IN IF r.raised
       THEN IF IsInstance(r.exc, "ParseError")
            THEN Return(<<ErrorRecord(ParsingXML(r.msg))>>)
            ELSE IF IsInstance(r.exc, "Exception")
            THEN Return(<<ErrorRecord(ParsingRSS(r.msg))>>)
            ELSE r
       ELSE LET channel == Find(r.value, "channel")
            IN IF channel = NoElement
               THEN Return(<<ErrorRecord(NoChannel)>>)
               ELSE LET items == FindAll(channel, "item")
                    IN Return([i \in 1..Len(items) |-> tc_article(items[i])])

\* extract_image_url trying the thumbnail before the content element
extract_image_url_thumbnail_first(item) ==
    LET media_content == FindDeep(item, MediaContent)
        media_thumbnail == FindDeep(item, MediaThumbnail)
        enclosure == Find(item, "enclosure")
    IN IF media_thumbnail # NoElement /\ HasAttr(media_thumbnail, "url")
       THEN Attr(media_thumbnail, "url")
       ELSE IF media_content # NoElement /\ HasAttr(media_content, "url")
       THEN Attr(media_content, "url")
       ELSE IF enclosure # NoElement /\ HasAttr(enclosure, "url")
       THEN Attr(enclosure, "url")
       ELSE <<>>

extract_image_url(item) ==
    LET media_content == FindDeep(item, MediaContent)
        media_thumbnail == FindDeep(item, MediaThumbnail)
        enclosure == Find(item, "enclosure")
    IN IF media_content # NoElement /\ HasAttr(media_content, "url")
       THEN Attr(media_content, "url")
       ELSE IF media_thumbnail # NoElement /\ HasAttr(media_thumbnail, "url")
       THEN Attr(media_thumbnail, "url")
       ELSE IF enclosure # NoElement /\ HasAttr(enclosure, "url")
       THEN Attr(enclosure, "url")
       ELSE <<>>

\* wsj_article taking the first creator only, as the TechCrunch parser does
wsj_article_first_creator(item) ==
    LET author_el == FindDeep(item, DcCreator)
    IN [title |-> wsj_get_element_text(item, "title", S("No title")),
        link |-> wsj_get_element_text(item, "link", <<>>),
        pubDate |-> wsj_get_element_text(item, "pubDate", <<>>),
        description |-> wsj_get_element_text(item, "description", S("No description")),
        author |-> IF author_el # NoElement /\ Truthy(author_el.text) THEN author_el.text ELSE <<>>,
        guid |-> wsj_get_element_text(item, "guid", <<>>),
        category |-> wsj_get_element_text(item, "category", <<>>),
        id |-> wsj_get_element_text(item, "id", <<>>),
        image_url |-> extract_image_url(item)]

wsj_article(item) ==
    LET authors == FindAllDeep(item, DcCreator)
    IN [title |-> wsj_get_element_text(item, "title", S("No title")),
        link |-> wsj_get_element_text(item, "link", <<>>),
        pubDate |-> wsj_get_element_text(item, "pubDate", <<>>),
        description |-> wsj_get_element_text(item, "description", S("No description")),
        author |-> IF authors # <<>> THEN Join(S(", "), TextsOf(authors)) ELSE <<>>,
        guid |-> wsj_get_element_text(item, "guid", <<>>),
        category |-> wsj_get_element_text(item, "category", <<>>),
        id |-> wsj_get_element_text(item, "id", <<>>),
        image_url |-> extract_image_url(item)]

\* parse_wsj_rss appending the error record and going on with the root as channel
parse_wsj_rss_appending(rss_content) ==
    LET r == FromString(rss_content)
    IN IF r.raised
       THEN IF IsInstance(r.exc, "ParseError")
            THEN Return(<<ErrorRecord(ParsingXML(r.msg))>>)
            ELSE IF IsInstance(r.exc, "Exception")
            THEN Return(<<ErrorRecord(ParsingRSS(r.msg))>>)
            ELSE r
       ELSE LET channel == Find(r.value, "channel")
                items == FindAll(IF channel = NoElement THEN r.value ELSE channel, "item")
            IN Return((IF channel = NoElement THEN <<ErrorRecord(NoChannel)>> ELSE <<>>)
                      \o [i \in 1..Len(items) |-> wsj_article(items[i])])

parse_wsj_rss(rss_content) ==
    LET r == FromString(rss_content)
    IN IF r.raised
       THEN IF IsInstance(r.exc, "ParseError")
            THEN Return(<<ErrorRecord(ParsingXML(r.msg))>>)
            ELSE IF IsInstance(r.exc, "Exception")
            THEN Return(<<ErrorRecord(ParsingRSS(r.msg))>>)
            ELSE r
       ELSE LET channel == Find(r.value, "channel")
            IN IF channel = NoElement
               THEN Return(<<ErrorRecord(NoChannel)>>)
               ELSE LET items == FindAll(channel, "item")
                    IN Return([i \in 1..Len(items) |-> wsj_article(items[i])])

wired_article(item) ==
    LET creator == FindDeep(item, DcCreator)
        subject_el == FindDeep(item, DcSubject)
        category_els == FindAll(item, "category")
        thumbnail == FindDeep(item, MediaThumbnail)
        hasThumb == thumbnail # NoElement /\ HasAttr(thumbnail, "url")
    IN [title |-> get_element_text(item, "title", S("No title")),
        link |-> get_element_text(item, "link", <<>>),
        pubDate |-> get_element_text(item, "pubDate", <<>>),
        description |-> get_element_text(item, "description", S("No description")),
        guid |-> get_element_text(item, "guid", <<>>),
        author |-> IF creator # NoElement /\ Truthy(creator.text) THEN creator.text ELSE <<>>,
        subject |-> IF subject_el # NoElement /\ Truthy(subject_el.text) THEN subject_el.text ELSE <<>>,
        categories |-> IF category_els # <<>> THEN TextsOf(category_els) ELSE <<>>,
        image_url |-> IF hasThumb THEN Attr(thumbnail, "url") ELSE <<>>,
        image_width |-> IF hasThumb THEN AttrGet(thumbnail, "width", <<>>) ELSE <<>>,
        image_height |-> IF hasThumb THEN AttrGet(thumbnail, "height", <<>>) ELSE <<>>]

parse_wired_rss(rss_content) ==
    LET r == FromString(rss_content)
    IN IF r.raised
       THEN IF IsInstance(r.exc, "ParseError")
            THEN Return(<<ErrorRecord(ParsingXML(r.msg))>>)
            ELSE IF IsInstance(r.exc, "Exception")
            THEN Return(<<ErrorRecord(ParsingRSS(r.msg))>>)
            ELSE r
       ELSE LET channel == Find(r.value, "channel")
            IN IF channel = NoElement
               THEN Return(<<ErrorRecord(NoChannel)>>)
               ELSE LET items == FindAll(channel, "item")
                    IN Return([i \in 1..Len(items) |-> wired_article(items[i])])

(***************************************************************************)
(* AI News: the Twitter recap inside content:encoded                       *)
(* The HTML inside the element text is lexed like everything else: a tag   *)
(* is one text token ("<h1>", "</li>", ...), an anchor is the token        *)
(* Anchor(href), white space and the colon are tokens of their own.        *)
(***************************************************************************)
Anchor(href) == [k |-> "text", v |-> "<a href>", a |-> {<<"href", href>>}]

HtmlTags == {"<h1>", "</h1>", "<h2>", "</h2>", "<ul>", "</ul>", "<li>", "</li>",
             "<p>", "</p>", "<b>", "</b>", "<a href>", "</a>"}
WhiteSpace == {" ", "\n"}

\* html.unescape on one token
UnescapeToken(tok) ==
    [tok EXCEPT !.v = CASE @ = "&lt;h1&gt;" -> "<h1>"
                        [] @ = "&lt;/h1&gt;" -> "</h1>"
                        [] @ = "&lt;li&gt;" -> "<li>"
                        [] @ = "&lt;/li&gt;" -> "</li>"
                        [] @ = "&amp;" -> "&"
                        [] @ = "&#58;" -> ":"
                        [] OTHER -> @]

HtmlUnescape(content) == [i \in 1..Len(content) |-> UnescapeToken(content[i])]

\* the least index >= from whose token has value v, or 0
IndexOf(s, from, v) ==
    LET hits == {j \in from..Len(s) : s[j].v = v}
    IN IF hits = {} THEN 0 ELSE CHOOSE j \in hits : \A h \in hits : j <= h

RECURSIVE Strip(_)
\* str.strip()
Strip(s) ==
    IF s = <<>> THEN s
    ELSE IF s[1].v \in WhiteSpace THEN Strip(Tail(s))
    ELSE IF s[Len(s)].v \in WhiteSpace THEN Strip(SubSeq(s, 1, Len(s) - 1))
    ELSE s

\* re.sub(r"<.*?>", "", s)
StripTags(s) == SelectAt(s, {i \in 1..Len(s) : s[i].v \notin HtmlTags})

RECURSIVE ListItems(_, _)
\* re.findall(r"<li>(.*?)</li>", section, re.DOTALL), scanning from index from
ListItems(section, from) ==
    LET a == IndexOf(section, from, "<li>")
        b == IF a = 0 THEN 0 ELSE IndexOf(section, a + 1, "</li>")
    IN IF a = 0 \/ b = 0 THEN <<>>
       ELSE <<SubSeq(section, a + 1, b - 1)>> \o ListItems(section, b + 1)

\* one entry of bullet_points
recap_item(bullet) ==
    LET clean_bullet == Strip(StripTags(bullet))
        colon == IndexOf(clean_bullet, 1, ":")
        newline == IndexOf(clean_bullet, 1, "\n")
        \* re.match(r"^(.*?):", ...): the dot does not match a line break
        title_match == colon # 0 /\ (newline = 0 \/ colon < newline)
        anchors == {j \in 1..Len(bullet) :
                      bullet[j].v = "<a href>" /\ \E p \in bullet[j].a : p[2] # ""}
        link_match == IF anchors = {} THEN 0
                      ELSE CHOOSE j \in anchors : \A h \in anchors : j <= h
    IN [title |-> IF title_match THEN Strip(SubSeq(clean_bullet, 1, colon - 1))
                  ELSE clean_bullet,
        description |-> IF title_match
                        THEN Strip(SubSeq(clean_bullet, colon + 1, Len(clean_bullet)))
                        ELSE <<>>,
        link |-> IF link_match # 0
                 THEN S((CHOOSE p \in bullet[link_match].a : TRUE)[2])
                 ELSE <<>>]

\* extract_twitter_recap taking the section to the end of the content
extract_twitter_recap_to_end(content0) ==
    LET content == HtmlUnescape(content0)
        starts == {i \in 1..(Len(content) - 2) :
                     /\ content[i].v = "<h1>"
                     /\ content[i + 1].v = "AI Twitter Recap"
                     /\ content[i + 2].v = "</h1>"}
    IN IF starts = {} THEN <<>>
       ELSE LET first == CHOOSE i \in starts : \A h \in starts : i <= h
                twitter_recap_section == SubSeq(content, first + 3, Len(content))
                bullet_pattern == ListItems(twitter_recap_section, 1)
            IN [i \in 1..Len(bullet_pattern) |-> recap_item(bullet_pattern[i])]

extract_twitter_recap(content0) ==
    LET content == HtmlUnescape(content0)
        starts == {i \in 1..(Len(content) - 2) :
                     /\ content[i].v = "<h1>"
                     /\ content[i + 1].v = "AI Twitter Recap"
                     /\ content[i + 2].v = "</h1>"}
    IN IF starts = {} THEN <<>>
       ELSE LET first == CHOOSE i \in starts : \A h \in starts : i <= h
                from == first + 3
                next_h1 == IndexOf(content, from, "<h1>")
                \* "$" also matches just before a final line break
                last == IF next_h1 # 0 THEN next_h1 - 1
                        ELSE IF Len(content) >= from /\ content[Len(content)].v = "\n"
                        THEN Len(content) - 1
                        ELSE Len(content)
                twitter_recap_section == SubSeq(content, from, last)
                bullet_pattern == ListItems(twitter_recap_section, 1)
            IN [i \in 1..Len(bullet_pattern) |-> recap_item(bullet_pattern[i])]

ainews_story(item) ==
    LET content_element == FindDeep(item, ContentEncoded)
        hasContent == content_element # NoElement /\ Truthy(content_element.text)
        category_els == FindAll(item, "category")
    IN [title |-> TextIfPresent(item, "title", S("No title")),
        link |-> TextIfPresent(item, "link", <<>>),
        description |-> TextIfPresent(item, "description", S("No description")),
        pubDate |-> TextIfPresent(item, "pubDate", <<>>),
        content |-> IF hasContent THEN content_element.text ELSE <<>>,
        twitter_recap |-> IF hasContent
                          THEN extract_twitter_recap(content_element.text)
                          ELSE <<>>,
        categories |-> IF category_els # <<>> THEN TextsOf(category_els) ELSE <<>>]

parse_ainews_rss(rss_content) ==
    LET r == FromString(rss_content)
    IN IF r.raised
       THEN IF IsInstance(r.exc, "ParseError")
            THEN Return(<<ErrorRecord(ParsingXML(r.msg))>>)
            ELSE IF IsInstance(r.exc, "Exception")
            THEN Return(<<ErrorRecord(ParsingRSS(r.msg))>>)
            ELSE r
       ELSE LET items == FindAllDeep(r.value, "item")
            IN IF items # <<>>
               THEN Return(<<ainews_story(items[1])>>)
               ELSE Return(<<>>)

(***************************************************************************)
(* Formatters                                                              *)
(***************************************************************************)
format_hn_story(story) ==
    S("\nTitle: ") \o FStr(Get(story, "title", S("Unknown")))
    \o S("\nLink: ") \o FStr(Get(story, "link", S("No link")))
    \o S("\nPublished: ") \o FStr(Get(story, "pubDate", S("Unknown")))
    \o S("\n")

format_tc_story(story) ==
    IF HasKey(story, "error") THEN S("ERROR: ") \o FStr(story.error)
    ELSE LET title == Get(story, "title", S("Unknown Title"))
             link == Get(story, "link", S("No link available"))
             pub_date == Get(story, "pubDate", S("Unknown publication date"))
             description == Get(story, "description", S("No description available"))
             author == Get(story, "author", <<>>)
             categories == Get(story, "categories", <<>>)
         IN S("\nTitle: ") \o FStr(title) \o S("\nLink: ") \o FStr(link)
            \o (IF Truthy(author) THEN S("\nAuthor: ") \o author ELSE <<>>)
            \o S("\nPublished: ") \o FStr(pub_date)
            \o (IF categories # <<>>
                THEN S("\nCategories: ") \o Join(S(", "), categories) ELSE <<>>)
            \o S("\n\n") \o FStr(description) \o S("\n")

format_wsj_story(story) ==
    IF HasKey(story, "error") THEN S("ERROR: ") \o FStr(story.error)
    ELSE LET title == Get(story, "title", S("Unknown Title"))
             link == Get(story, "link", S("No link available"))
             pub_date == Get(story, "pubDate", S("Unknown publication date"))
             description == Get(story, "description", S("No description available"))
             author == Get(story, "author", <<>>)
         IN S("\nTitle: ") \o FStr(title) \o S("\nLink: ") \o FStr(link)
            \o (IF Truthy(author) THEN S("\nAuthor: ") \o author ELSE <<>>)
            \o S("\nPublished: ") \o FStr(pub_date)
            \o S("\n\n") \o FStr(description) \o S("\n")

format_wired_story(story) ==
    IF HasKey(story, "error") THEN S("ERROR: ") \o FStr(story.error)
    ELSE LET title == Get(story, "title", S("Unknown Title"))
             link == Get(story, "link", S("No link available"))
             pub_date == Get(story, "pubDate", S("Unknown publication date"))
             description == Get(story, "description", S("No description available"))
             author == Get(story, "author", <<>>)
             subject == Get(story, "subject", <<>>)
             categories == Get(story, "categories", <<>>)
         IN S("\nTitle: ") \o FStr(title) \o S("\nLink: ") \o FStr(link)
            \o (IF Truthy(author) THEN S("\nAuthor: ") \o author ELSE <<>>)
            \o (IF Truthy(subject) THEN S("\nSubject: ") \o subject ELSE <<>>)
            \o S("\nPublished: ") \o FStr(pub_date)
            \o (IF categories # <<>>
                THEN S("\nCategories: ") \o Join(S(", "), categories) ELSE <<>>)
            \o S("\n\n") \o FStr(description) \o S("\n")

format_recap_item(item) ==
    S("Title: ") \o item.title \o S("\nLink: ") \o item.link
    \o S("\nDescription: ") \o item.description \o S("\n\n")

format_ainews_story(story) ==
    IF HasKey(story, "error") THEN S("ERROR: ") \o FStr(story.error)
    ELSE LET title == Get(story, "title", S("Unknown Title"))
             link == Get(story, "link", S("No link available"))
             pub_date == Get(story, "pubDate", S("Unknown publication date"))
             description == Get(story, "description", S("No description available"))
             twitter_recap == Get(story, "twitter_recap", <<>>)
             categories == Get(story, "categories", <<>>)
         IN S("\nTitle: ") \o FStr(title) \o S("\nLink: ") \o FStr(link)
            \o S("\nDescription: ") \o FStr(description)
            \o S("\nPublished: ") \o FStr(pub_date) \o S("\n")
            \o (IF twitter_recap # <<>>
                THEN S("\n\n") \o Flatten([i \in 1..Len(twitter_recap) |->
                                              format_recap_item(twitter_recap[i])])
                ELSE <<>>)
            \o (IF categories # <<>>
                THEN S("\nCategories: ") \o Join(S(", "), categories) ELSE <<>>)

(***************************************************************************)
(* Tools.  A tool's frame is what the call leaves behind: the string the   *)
(* fetcher gave it, whether it called the parser, the parser's list, and   *)
(* the outcome of the call (a returned string or a propagated exception).  *)
(***************************************************************************)
Frame(rss_content, parsed, stories, ret) ==
    [rss_content |-> rss_content, parsed |-> parsed, stories |-> stories, ret |-> ret]

Separator == S("\n---\n")
NoStories == S("No stories found.")

get_hackernews_stories(feed_url, count, net) ==
    LET f == fetch_hn_rss(feed_url, net)
    IN IF f.raised THEN Frame(<<>>, FALSE, <<>>, f)
       ELSE IF StartsWith(f.value, S("Error"))
       THEN Frame(f.value, FALSE, <<>>, Return(f.value))
       ELSE LET p == parse_hn_rss(f.value)
            IN IF p.raised THEN Frame(f.value, TRUE, <<>>, p)
               ELSE LET stories == PySlice(p.value, Min(count, Len(p.value)))
                    IN Frame(f.value, TRUE, p.value,
                             IF stories = <<>> THEN Return(NoStories)
                             ELSE Return(Join(Separator,
                                      [i \in 1..Len(stories) |-> format_hn_story(stories[i])])))

get_wallstreetjournal_stories(feed_url, count, net) ==
    LET f == fetch_wsj_rss(feed_url, net)
    IN IF f.raised THEN Frame(<<>>, FALSE, <<>>, f)
       ELSE IF StartsWith(f.value, S("Error"))
       THEN Frame(f.value, FALSE, <<>>, Return(f.value))
       ELSE LET p == parse_wsj_rss(f.value)
            IN IF p.raised THEN Frame(f.value, TRUE, <<>>, p)
               ELSE IF p.value # <<>> /\ HasKey(p.value[1], "error")
               THEN Frame(f.value, TRUE, p.value, Return(p.value[1].error))
               ELSE LET stories == PySlice(p.value, Min(count, Len(p.value)))
                    IN Frame(f.value, TRUE, p.value,
                             IF stories = <<>> THEN Return(NoStories)
                             ELSE Return(Join(Separator,
                                      [i \in 1..Len(stories) |-> format_wsj_story(stories[i])])))

get_techcrunch_stories(feed_url, count, net) ==
    LET f == fetch_tc_rss(feed_url, net)
    IN IF f.raised THEN Frame(<<>>, FALSE, <<>>, f)
       ELSE IF StartsWith(f.value, S("Error"))
       THEN Frame(f.value, FALSE, <<>>, Return(f.value))
       ELSE LET p == parse_tc_rss(f.value)
            IN IF p.raised THEN Frame(f.value, TRUE, <<>>, p)
               ELSE IF p.value # <<>> /\ HasKey(p.value[1], "error")
               THEN Frame(f.value, TRUE, p.value, Return(p.value[1].error))
               ELSE LET stories == PySlice(p.value, Min(count, Len(p.value)))
                    IN Frame(f.value, TRUE, p.value,
                             IF stories = <<>> THEN Return(NoStories)
                             ELSE Return(Join(Separator,
                                      [i \in 1..Len(stories) |-> format_tc_story(stories[i])])))

get_ainews_latest(feed_url, net) ==
    LET f == fetch_ainews_rss(feed_url, net)
    IN IF f.raised THEN Frame(<<>>, FALSE, <<>>, f)
       ELSE IF StartsWith(f.value, S("Error"))
       THEN Frame(f.value, FALSE, <<>>, Return(f.value))
       ELSE LET p == parse_ainews_rss(f.value)
            IN IF p.raised THEN Frame(f.value, TRUE, <<>>, p)
               ELSE IF p.value # <<>> /\ HasKey(p.value[1], "error")
               THEN Frame(f.value, TRUE, p.value, Return(p.value[1].error))
               ELSE IF p.value = <<>>
               THEN Frame(f.value, TRUE, p.value, Return(NoStories))
               ELSE Frame(f.value, TRUE, p.value, Return(format_ainews_story(p.value[1])))

\* get_wired_stories without the limit to count
get_wired_stories_unlimited(feed_url, count, net) ==
    LET f == fetch_wired_rss(feed_url, net)
    IN IF f.raised THEN Frame(<<>>, FALSE, <<>>, f)
       ELSE IF StartsWith(f.value, S("Error"))
       THEN Frame(f.value, FALSE, <<>>, Return(f.value))
       ELSE LET p == parse_wired_rss(f.value)
            IN IF p.raised THEN Frame(f.value, TRUE, <<>>, p)
               ELSE IF p.value # <<>> /\ HasKey(p.value[1], "error")
               THEN Frame(f.value, TRUE, p.value, Return(p.value[1].error))
               ELSE LET stories == p.value
                    IN Frame(f.value, TRUE, p.value,
                             IF stories = <<>> THEN Return(NoStories)
                             ELSE Return(Join(Separator,
                                      [i \in 1..Len(stories) |-> format_wired_story(stories[i])])))

get_wired_stories(feed_url, count, net) ==
    LET f == fetch_wired_rss(feed_url, net)
    IN IF f.raised THEN Frame(<<>>, FALSE, <<>>, f)
       ELSE IF StartsWith(f.value, S("Error"))
       THEN Frame(f.value, FALSE, <<>>, Return(f.value))
       ELSE LET p == parse_wired_rss(f.value)
            IN IF p.raised THEN Frame(f.value, TRUE, <<>>, p)
               ELSE IF p.value # <<>> /\ HasKey(p.value[1], "error")
               THEN Frame(f.value, TRUE, p.value, Return(p.value[1].error))
               ELSE LET stories == PySlice(p.value, Min(count, Len(p.value)))
                    IN Frame(f.value, TRUE, p.value,
                             IF stories = <<>> THEN Return(NoStories)
                             ELSE Return(Join(Separator,
                                      [i \in 1..Len(stories) |-> format_wired_story(stories[i])])))

DEFAULT_HN_RSS_URL == S("https://news.ycombinator.com/rss")
DEFAULT_WSJ_RSS_URL == S("https://feeds.content.dowjones.io/public/rss/RSSWSJD")
DEFAULT_TC_RSS_URL == S("https://techcrunch.com/feed/")
DEFAULT_AINEWS_RSS_URL == S("https://news.smol.ai/rss.xml")
DEFAULT_WIRED_RSS_URL == S("https://www.wired.com/feed/tag/ai/latest/rss")

(***************************************************************************)
(* Inputs: feeds, response bodies, network outcomes, arguments             *)
(***************************************************************************)
Leaf(tag, text) == Element(tag, {}, text, <<>>)

RecapHtml ==
    <<Txt("<p>"), Txt("intro"), Txt("</p>"),
      Txt("<h1>"), Txt("AI Twitter Recap"), Txt("</h1>"),
      Txt("<ul>"), Txt("<li>"), Txt("OpenAI"), Txt(":"), Txt(" "),
      Txt("released a model"), Txt(" "), Anchor("http://x"), Txt("link"), Txt("</a>"),
      Txt("</li>"), Txt("</ul>"),
      Txt("<h1>"), Txt("Other"), Txt("</h1>"),
      Txt("<ul>"), Txt("<li>"), Txt("later"), Txt("</li>"), Txt("</ul>")>>

\* an item with every field the parsers look for
ItemFull ==
    Element("item", {}, PyNone,
        <<Leaf("title", S("T1")), Leaf("link", S("L1")),
          Leaf("description", S("D1")), Leaf("pubDate", S("P1")),
          Element("guid", {<<"isPermaLink", "true">>}, S("G1"), <<>>),
          Leaf(DcCreator, S("Alice")), Leaf(DcCreator, S("Bob")),
          Leaf("category", S("C1")), Leaf("category", S("C2")),
          Leaf(DcSubject, S("AI")),
          Element(MediaContent, {<<"url", "IMG1">>}, PyNone, <<>>),
          Element(MediaThumbnail, {<<"url", "IMG2">>, <<"width", "640">>}, PyNone, <<>>),
          Leaf(ContentEncoded, RecapHtml)>>)

\* an item whose field elements are present but have no text
ItemEmpty ==
    Element("item", {}, PyNone,
        <<Leaf("title", PyNone), Leaf("link", PyNone),
          Leaf("description", PyNone), Leaf("pubDate", PyNone),
          Leaf("guid", PyNone), Leaf(DcCreator, PyNone), Leaf("category", PyNone)>>)

\* an item without any field element
ItemBare == Element("item", {}, PyNone, <<>>)

\* a plain item; its id sits one level down
ItemPlain ==
    Element("item", {}, PyNone,
        <<Leaf("title", S("T2")), Leaf("link", S("L2")),
          Leaf("pubDate", S("P2")), Leaf("description", S("D2")),
          Element("extra", {}, PyNone, <<Leaf("id", S("ID2"))>>)>>)

ItemKinds == {ItemFull, ItemEmpty, ItemBare, ItemPlain}

ItemLists == UNION {[1..n -> ItemKinds] : n \in 0..MaxItems}

\* <rss><channel><title>Feed</title> items </channel></rss>
RssFeed(items) ==
    Element("rss", {<<"version", "2.0">>}, PyNone,
        <<Element("channel", {}, PyNone, <<Leaf("title", S("Feed"))>> \o items)>>)

\* a document whose root holds the items itself, without a channel
ChannellessFeed(items) == Element("feed", {}, PyNone, items)

RECURSIVE Serialize(_)
RECURSIVE SerializeAll(_)
\* the text of a document
Serialize(el) ==
    IF el.text = PyNone /\ el.children = <<>>
    THEN <<Empty(el.tag, el.attrib)>>
    ELSE <<Open(el.tag, el.attrib)>>
         \o (IF el.text = PyNone THEN <<>> ELSE el.text)
         \o SerializeAll(el.children)
         \o <<Close(el.tag)>>
SerializeAll(els) ==
    IF els = <<>> THEN <<>> ELSE Serialize(els[1]) \o SerializeAll(Tail(els))

WellFormedBodies ==
    {Serialize(RssFeed(items)) : items \in ItemLists}
    \cup {Serialize(ChannellessFeed(items)) : items \in ItemLists}

SampleBody == Serialize(RssFeed(<<ItemPlain>>))

MalformedBodies ==
    {<<>>,
     S("Service unavailable"),
     SubSeq(SampleBody, 1, Len(SampleBody) - 1),
     SubSeq(SampleBody, 1, Len(SampleBody) - 2) \o <<Close("rss")>>,
     SampleBody \o S("trailing"),
     <<Close("rss")>>}

\* a page that is served with status 200 and begins with the word Error
ErrorPage == S("Error") \o S(" 503 Backend fetch failed")

Bodies == WellFormedBodies \cup MalformedBodies \cup {ErrorPage}

Response(status, text) ==
    [kind |-> "response", status |-> status, text |-> text, exc |-> "", msg |-> <<>>]
GetRaised(exc, msg) ==
    [kind |-> "raise", status |-> 0, text |-> <<>>, exc |-> exc, msg |-> msg]

NoNet == [kind |-> "none", status |-> 0, text |-> <<>>, exc |-> "", msg |-> <<>>]

Responses ==
    {Response(200, b) : b \in Bodies}
    \cup {Response(s, S("error page")) : s \in {301, 404, 500}}

Raises ==
    {GetRaised("ReadTimeout", S("The read operation timed out")),
     GetRaised("ConnectError", S("All connection attempts failed")),
     GetRaised("InvalidURL", S("Invalid port"))}

Counts == (0 - MaxNegCount)..MaxCount

OtherUrl == S("https://example.org/feed.xml")

Tools == {"hackernews", "wsj", "techcrunch", "ainews", "wired"}
MultiItemTools == Tools \ {"ainews"}

DefaultUrl(t) ==
    CASE t = "hackernews" -> DEFAULT_HN_RSS_URL
      [] t = "wsj" -> DEFAULT_WSJ_RSS_URL
      [] t = "techcrunch" -> DEFAULT_TC_RSS_URL
      [] t = "ainews" -> DEFAULT_AINEWS_RSS_URL
      [] t = "wired" -> DEFAULT_WIRED_RSS_URL

Urls(t) == {DefaultUrl(t), OtherUrl}

\* the record a source's parser makes of one item, and the source's formatter
ArticleOf(t, item) ==
    CASE t = "hackernews" -> hn_story(item)
      [] t = "wsj" -> wsj_article(item)
      [] t = "techcrunch" -> tc_article(item)
      [] t = "ainews" -> ainews_story(item)
      [] t = "wired" -> wired_article(item)

FormatOf(t, story) ==
    CASE t = "hackernews" -> format_hn_story(story)
      [] t = "wsj" -> format_wsj_story(story)
      [] t = "techcrunch" -> format_tc_story(story)
      [] t = "ainews" -> format_ainews_story(story)
      [] t = "wired" -> format_wired_story(story)

Messages ==
    {<<>>, S("X"), NoChannel, ParsingXML(S("syntax error")), ParsingRSS(S("no element found"))}

FormatInputs(t) ==
    {ErrorRecord(m) : m \in Messages} \cup {ArticleOf(t, item) : item \in ItemKinds}

\* an element that may carry an image: absent, without url, or with url
ImageElements(tag, url) ==
    {<<>>,
     <<Element(tag, {<<"type", "image/jpeg">>}, PyNone, <<>>)>>,
     <<Element(tag, {<<"url", url>>}, PyNone, <<>>)>>}

\* items with every combination of content, thumbnail and enclosure, and
\* items where the elements are repeated, out of order or one level down
ImageItems ==
    {Element("item", {}, PyNone, <<Leaf("title", S("T"))>> \o c \o t \o e) :
        c \in ImageElements(MediaContent, "IMG1"),
        t \in ImageElements(MediaThumbnail, "IMG2"),
        e \in ImageElements("enclosure", "IMG3")}
    \cup {Element("item", {}, PyNone,
              <<Element(MediaThumbnail, {<<"url", "IMG2">>}, PyNone, <<>>),
                Element(MediaContent, {<<"url", "IMG1">>}, PyNone, <<>>)>>),
          Element("item", {}, PyNone,
              <<Element(MediaContent, {}, PyNone, <<>>),
                Element(MediaContent, {<<"url", "IMG1">>}, PyNone, <<>>),
                Element("enclosure", {<<"url", "IMG3">>}, PyNone, <<>>)>>),
          Element("item", {}, PyNone,
              <<Element("group", {}, PyNone,
                    <<Element(MediaThumbnail, {<<"url", "IMG2">>}, PyNone, <<>>)>>),
                Element("enclosure", {<<"url", "IMG3">>}, PyNone, <<>>)>>),
          Element("item", {}, PyNone,
              <<Element(MediaContent, {<<"url", "">>}, PyNone, <<>>),
                Element(MediaThumbnail, {<<"url", "IMG2">>}, PyNone, <<>>)>>)}

\* what stands between <li> and </li> in the recap
BulletKinds ==
    {<<Txt("OpenAI"), Txt(":"), Txt(" "), Txt("released a model"), Txt(" "),
       Anchor("http://x"), Txt("link"), Txt("</a>")>>,
     <<Txt("no colon here")>>,
     <<Txt("first line"), Txt("\n"), Txt("second"), Txt(":"), Txt(" "), Txt("rest")>>,
     <<Txt("A"), Txt(":"), Txt("B"), Txt(":"), Txt("C")>>,
     <<Txt("\n"), Txt(" "), Txt("<b>"), Txt("Padded"), Txt("</b>"), Txt(" "), Txt(":"),
       Txt(" "), Txt("text"), Txt(" "), Txt("\n")>>,
     <<Txt(":"), Txt("only a description")>>,
     <<>>}

BulletLists == UNION {[1..n -> BulletKinds] : n \in 0..MaxBullets}

ListItem(bullet) == <<Txt("<li>")>> \o bullet \o <<Txt("</li>")>>

BulletList(bullets) ==
    <<Txt("<ul>")>> \o Flatten([i \in 1..Len(bullets) |-> ListItem(bullets[i])])
    \o <<Txt("</ul>")>>

Heading(title) == <<Txt("<h1>"), Txt(title), Txt("</h1>")>>

\* the heading of the section: as markup, with its tags as entities, with
\* another title, or not there
RecapHeadings ==
    {Heading("AI Twitter Recap"),
     <<Txt("&lt;h1&gt;"), Txt("AI Twitter Recap"), Txt("&lt;/h1&gt;")>>,
     Heading("AI Reddit Recap"),
     <<>>}

RecapBefore == {<<>>, BulletList(<<S("before") \o S(":") \o S("x")>>)}

\* what follows the section: nothing, a line break, another section with its
\* own list, or a list item that is closed only after the next heading
RecapAfter ==
    {<<>>,
     S("\n"),
     Heading("Other") \o BulletList(<<S("later") \o S(":") \o S("y")>>),
     S("<li>") \o S("dangling") \o Heading("Other") \o S("</li>")}

RecapContents ==
    {before \o heading \o BulletList(bullets) \o after :
        before \in RecapBefore, heading \in RecapHeadings,
        bullets \in BulletLists, after \in RecapAfter}

\* the creators of an item: named ones and ones without text, in any order
CreatorKinds == {Leaf(DcCreator, S("Alice")), Leaf(DcCreator, S("Bob")), Leaf(DcCreator, PyNone)}

CreatorLists == UNION {[1..n -> CreatorKinds] : n \in 0..MaxCreators}

\* one-item feeds whose item has the creators as children, or one level down
AuthorFeeds ==
    {Serialize(RssFeed(<<Element("item", {}, PyNone,
                           <<Leaf("title", S("T"))>> \o creators)>>)) :
        creators \in CreatorLists}
    \cup {Serialize(RssFeed(<<Element("item", {}, PyNone,
                                <<Leaf("title", S("T")),
                                  Element("byline", {}, PyNone, creators)>>)>>)) :
             creators \in CreatorLists \ {<<>>}}

\* the prefixes the modules register with ElementTree when they are imported
RegisteredNamespaces ==
    {<<"atom", "http://www.w3.org/2005/Atom">>,
     <<"content", "http://purl.org/rss/1.0/modules/content/">>,
     <<"dc", "http://purl.org/dc/elements/1.1/">>,
     <<"media", "http://search.yahoo.com/mrss/">>,
     <<"slash", "http://purl.org/rss/1.0/modules/slash/">>,
     <<"sy", "http://purl.org/rss/1.0/modules/syndication/">>,
     <<"wfw", "http://wellformedweb.org/CommentAPI/">>}

(***************************************************************************)
(* State: one tool call, suspended once at the await of the fetch          *)
(* (pc .. frame); the coroutines of the calls that are in flight together  *)
(* (calls); ElementTree's registry of prefixes, the one mutable object at  *)
(* module level (namespace_map)                                            *)
(***************************************************************************)
VARIABLES pc, tool, feed_url, count, net, frame, calls, namespace_map

vars == <<pc, tool, feed_url, count, net, frame, calls, namespace_map>>

NoFrame == Frame(<<>>, FALSE, <<>>, Return(<<>>))

CallIds == 1..MaxCalls

\* a coroutine that is not running: it has no locals
IdleCall ==
    [pc |-> "idle", tool |-> "", feed_url |-> <<>>, count |-> 0, net |-> NoNet,
     rss_content |-> <<>>, frame |-> NoFrame]

Init ==
    /\ pc = "idle"
    /\ tool = ""
    /\ feed_url = <<>>
    /\ count = 0
    /\ net = NoNet
    /\ frame = NoFrame
    /\ calls = [i \in CallIds |-> IdleCall]
    /\ namespace_map = RegisteredNamespaces

\* the call starts and runs up to "await client.get(...)"
Invoke(t, url, c) ==
    /\ pc = "idle"
    /\ pc' = "awaiting"
    /\ tool' = t
    /\ feed_url' = url
    /\ count' = c
    /\ UNCHANGED <<net, frame, calls, namespace_map>>

InvokeHackerNews == \E url \in Urls("hackernews"), c \in Counts : Invoke("hackernews", url, c)
InvokeWSJ == \E url \in Urls("wsj"), c \in Counts : Invoke("wsj", url, c)
InvokeTechCrunch == \E url \in Urls("techcrunch"), c \in Counts : Invoke("techcrunch", url, c)
InvokeAINews == \E url \in Urls("ainews") : Invoke("ainews", url, 0)
InvokeWired == \E url \in Urls("wired"), c \in Counts : Invoke("wired", url, c)

\* the rest of the call, once the network has answered with n
RunTool(t, url, c, n) ==
    CASE t = "hackernews" -> get_hackernews_stories(url, c, n)
      [] t = "wsj" -> get_wallstreetjournal_stories(url, c, n)
      [] t = "techcrunch" -> get_techcrunch_stories(url, c, n)
      [] t = "ainews" -> get_ainews_latest(url, n)
      [] t = "wired" -> get_wired_stories(url, c, n)

Resume(n) ==
    /\ pc = "awaiting"
    /\ pc' = "done"
    /\ net' = n
    /\ frame' = RunTool(tool, feed_url, count, n)
    /\ UNCHANGED <<tool, feed_url, count, calls, namespace_map>>

\* the server answers
Respond == \E n \in Responses : Resume(n)

\* client.get raises
GetFails == \E n \in Raises : Resume(n)

\* a formatter called on its own with one record
FormatStory ==
    \E t \in Tools : \E story \in FormatInputs(t) :
        /\ pc = "idle"
        /\ pc' = "formatted"
        /\ tool' = t
        /\ frame' = Frame(<<>>, FALSE, <<story>>, Return(FormatOf(t, story)))
        /\ UNCHANGED <<feed_url, count, net, calls, namespace_map>>

\* wsj.extract_image_url called on its own with one item
ExtractImageUrl ==
    \E item \in ImageItems :
        /\ pc = "idle"
        /\ pc' = "extracted"
        /\ tool' = "wsj"
        /\ frame' = Frame(<<>>, FALSE, <<item>>, Return(extract_image_url(item)))
        /\ UNCHANGED <<feed_url, count, net, calls, namespace_map>>

\* ainews.extract_twitter_recap called on its own with one content
ExtractTwitterRecap ==
    \E content \in RecapContents :
        /\ pc = "idle"
        /\ pc' = "recap"
        /\ tool' = "ainews"
        /\ frame' = Frame(content, FALSE, <<>>, Return(extract_twitter_recap(content)))
        /\ UNCHANGED <<feed_url, count, net, calls, namespace_map>>

\* wsj.parse_wsj_rss called on its own with one document
ParseWSJ ==
    \E rss_content \in AuthorFeeds :
        /\ pc = "idle"
        /\ pc' = "parsed"
        /\ tool' = "wsj"
        /\ frame' = Frame(rss_content, TRUE, parse_wsj_rss(rss_content).value,
                          parse_wsj_rss(rss_content))
        /\ UNCHANGED <<feed_url, count, net, calls, namespace_map>>

\* the caller takes the result; nothing of the call is kept
Deliver ==
    /\ pc \in {"done", "formatted", "extracted", "recap", "parsed"}
    /\ pc' = "idle"
    /\ tool' = ""
    /\ feed_url' = <<>>
    /\ count' = 0
    /\ net' = NoNet
    /\ frame' = NoFrame
    /\ UNCHANGED <<calls, namespace_map>>

Next ==
    \/ InvokeHackerNews
    \/ InvokeWSJ
    \/ InvokeTechCrunch
    \/ InvokeAINews
    \/ InvokeWired
    \/ Respond
    \/ GetFails
    \/ FormatStory
    \/ ExtractImageUrl
    \/ ExtractTwitterRecap
    \/ ParseWSJ
    \/ Deliver

Spec == Init /\ [][Next]_vars

(***************************************************************************)
(* Calls in flight together.  Each call is a coroutine with its own        *)
(* arguments and locals; it is suspended at "await client.get(...)" and    *)
(* again when "async with" closes its client, and between two suspensions  *)
(* it runs alone.                                                          *)
(***************************************************************************)
ConcurrentCounts == {1, 2}

ConcurrentAnswers ==
    {Response(200, Serialize(RssFeed(<<ItemPlain, ItemEmpty>>))),
     Response(200, Serialize(RssFeed(<<ItemEmpty>>))),
     GetRaised("ReadTimeout", S("The read operation timed out"))}

\* await fetch_*_rss(feed_url), once the network has answered with n
Fetch(t, url, n) ==
    CASE t = "hackernews" -> fetch_hn_rss(url, n)
      [] t = "wsj" -> fetch_wsj_rss(url, n)
      [] t = "techcrunch" -> fetch_tc_rss(url, n)
      [] t = "ainews" -> fetch_ainews_rss(url, n)
      [] t = "wired" -> fetch_wired_rss(url, n)

\* the tool from the return of its fetcher on; the fetcher hands over
\* rss_content exactly as it hands over the body of a 2xx response
ContinueTool(t, url, c, rss_content) == RunTool(t, url, c, Response(200, rss_content))

\* call i starts and runs up to "await client.get(...)" of its own client
InvokeCall(i, t, c) ==
    /\ calls[i].pc = "idle"
    /\ calls' = [calls EXCEPT ![i] =
                    [IdleCall EXCEPT !.pc = "awaiting", !.tool = t,
                                     !.feed_url = DefaultUrl(t), !.count = c]]
    /\ UNCHANGED <<pc, tool, feed_url, count, net, frame, namespace_map>>

\* the network answers the request of call i with n; the fetcher of call i
\* runs up to the closing of its client
ResumeCall(i, n) ==
    /\ calls[i].pc = "awaiting"
    /\ LET f == Fetch(calls[i].tool, calls[i].feed_url, n)
       IN calls' = [calls EXCEPT ![i] =
                       [@ EXCEPT !.pc = IF f.raised THEN "done" ELSE "closing",
                                 !.net = n,
                                 !.rss_content = f.value,
                                 !.frame = IF f.raised THEN Frame(<<>>, FALSE, <<>>, f)
                                           ELSE NoFrame]]
    /\ UNCHANGED <<pc, tool, feed_url, count, net, frame, namespace_map>>

\* FinishCall with rss_content as one module-level name: the call goes on
\* with what the fetcher of any call that is closing has stored
FinishCall_shared_rss_content(i) ==
    /\ calls[i].pc = "closing"
    /\ \E j \in CallIds :
          /\ calls[j].pc = "closing"
          /\ calls' = [calls EXCEPT ![i] =
                          [@ EXCEPT !.pc = "done",
                                    !.frame = ContinueTool(calls[i].tool, calls[i].feed_url,
                                                  calls[i].count, calls[j].rss_content)]]
    /\ UNCHANGED <<pc, tool, feed_url, count, net, frame, namespace_map>>

\* the client of call i is closed; the tool runs from the return of its
\* fetcher to its own return
FinishCall(i) ==
    /\ calls[i].pc = "closing"
    /\ calls' = [calls EXCEPT ![i] =
                    [@ EXCEPT !.pc = "done",
                              !.frame = ContinueTool(calls[i].tool, calls[i].feed_url,
                                            calls[i].count, calls[i].rss_content)]]
    /\ UNCHANGED <<pc, tool, feed_url, count, net, frame, namespace_map>>

\* the caller of call i takes the result; the coroutine is gone
DeliverCall(i) ==
    /\ calls[i].pc = "done"
    /\ calls' = [calls EXCEPT ![i] = IdleCall]
    /\ UNCHANGED <<pc, tool, feed_url, count, net, frame, namespace_map>>

StartCall ==
    \E i \in CallIds : \E t \in Tools : \E c \in ConcurrentCounts :
        InvokeCall(i, t, IF t = "ainews" THEN 0 ELSE c)
AnswerCall == \E i \in CallIds : \E n \in ConcurrentAnswers : ResumeCall(i, n)
CloseClient == \E i \in CallIds : FinishCall(i)
TakeResult == \E i \in CallIds : DeliverCall(i)

ConcurrentNext ==
    \/ StartCall
    \/ AnswerCall
    \/ CloseClient
    \/ TakeResult

ConcurrentSpec == Init /\ [][ConcurrentNext]_vars

TypeOK ==
    /\ pc \in {"idle", "awaiting", "done", "formatted", "extracted", "recap", "parsed"}
    /\ tool \in Tools \cup {""}
    /\ count \in Counts
    /\ frame.parsed \in BOOLEAN

(***************************************************************************)
(* What the claims speak of                                                *)
(***************************************************************************)
Returned == pc = "done" /\ ~frame.ret.raised

\* the fetch did not end with the body of a 2xx response
FetchFailed == net.kind = "raise" \/ (net.kind = "response" /\ ~IsSuccess(net.status))
FetchSucceeded == net.kind = "response" /\ IsSuccess(net.status)

HttpErrorPrefix == S("HTTP ") \o S("Error") \o S(" fetching RSS: ")
ErrorPrefix == S("Error") \o S(" fetching RSS: ")

IsSentinel(s) ==
    \/ StartsWith(s, S("Error"))
    \/ StartsWith(s, S("HTTP ") \o S("Error"))
    \/ StartsWith(s, S("Timeout"))

\* the tool gave the parser a text that is not well-formed XML
ParsedMalformed == pc = "done" /\ frame.parsed /\ FromString(frame.rss_content).raised

\* the tool gave the parser a well-formed document
ParsedWellFormed == pc = "done" /\ frame.parsed /\ ~FromString(frame.rss_content).raised

IsErrorRecord(rec) == HasKey(rec, "error")

ArticleLines == {Txt("\nTitle: "), Txt("\nLink: "), Txt("\nPublished: "), Txt("Title: ")}

\* C1: in every tool, a failure sentinel from the fetcher (a string that
\* starts with "Error", "HTTP Error" or "Timeout") is returned unchanged and
\* the parser is not called.
C1_SentinelReturnedUnparsed ==
    (pc = "done" /\ FetchFailed /\ IsSentinel(frame.rss_content))
        => /\ ~frame.ret.raised
           /\ frame.ret.value = frame.rss_content
           /\ ~frame.parsed

\* C2: the fetcher maps the kind of failure to its sentinel: a non-2xx status
\* gives "HTTP Error fetching RSS: ...", a timeout gives exactly
\* "Timeout fetching RSS from {url}", any other failure gives
\* "Error fetching RSS: {description}", and a 2xx response gives the body.
C2_FailureKindToSentinel ==
    pc = "done" =>
        IF FetchSucceeded THEN frame.rss_content = net.text
        ELSE IF net.kind = "response" THEN StartsWith(frame.rss_content, HttpErrorPrefix)
        ELSE IF IsInstance(net.exc, "TimeoutException")
        THEN Chars(frame.rss_content) = "Timeout fetching RSS from " \o Chars(feed_url)
        ELSE frame.rss_content = ErrorPrefix \o net.msg

\* C3: whatever the fetch outcome, the body and the count, the tool call ends
\* by returning a string; no exception leaves the call.
C3_ToolReturnsString ==
    pc = "done" =>
        /\ ~frame.ret.raised
        /\ \A i \in 1..Len(frame.ret.value) : frame.ret.value[i].k = "text"

\* C3 witness: a call whose parser met malformed XML, and a call whose get
\* raised something that is not an httpx.HTTPError, both returned.
C3_Witness ==
    /\ Returned
    /\ \/ ParsedMalformed /\ count < 0
       \/ net.kind = "raise" /\ ~IsInstance(net.exc, "HTTPError")

\* C4: when the fetched body is not well-formed XML, the tool returns a short
\* diagnostic that carries the parse error message and has no article block.
C4_MalformedGivesDiagnostic ==
    (pc = "done" /\ FetchSucceeded /\ FromString(net.text).raised)
        => /\ ~frame.ret.raised
           /\ Contains(frame.ret.value, FromString(net.text).msg)
           /\ \A i \in 1..Len(frame.ret.value) : frame.ret.value[i] \notin ArticleLines

\* C5: every formatter, given the error record {error: X}, returns exactly
\* "ERROR: X".
C5_FormatErrorRecord ==
    (pc = "formatted" /\ IsErrorRecord(frame.stories[1]))
        => Chars(frame.ret.value) = "ERROR: " \o Chars(frame.stories[1].error)

\* C6: every parser, given malformed XML, returns a list of exactly one error
\* record whose message is "Error parsing XML: " and the parse diagnostic.
C6_MalformedGivesXMLError ==
    ParsedMalformed
        => /\ Len(frame.stories) = 1
           /\ IsErrorRecord(frame.stories[1])
           /\ Chars(frame.stories[1].error)
                = "Error parsing XML: " \o Chars(FromString(frame.rss_content).msg)

\* the document the parser was given, and the items of its channel
ParsedRoot == FromString(frame.rss_content).value
RootHasChannel == Find(ParsedRoot, "channel") # NoElement
FeedItems == FindAll(Find(ParsedRoot, "channel"), "item")

ChannelSources == {"techcrunch", "wsj", "wired"}

\* C7 as stated: every parser, given a well-formed document whose root has no
\* channel element, returns exactly the one error record "Invalid RSS format:
\* No channel element found", whatever items the document holds.
C7_EveryParserRequiresChannel ==
    (ParsedWellFormed /\ ~RootHasChannel)
        => frame.stories = <<ErrorRecord(NoChannel)>>

\* C7 amended: the TechCrunch, WSJ and Wired parsers, given a well-formed
\* document whose root has no channel element, return exactly the one error
\* record "Invalid RSS format: No channel element found", whatever items the
\* document holds; the Hacker News and AI News parsers make no channel check
\* and return article records for the items found anywhere in the document
\* (AI News: the first of them only).
C7_ChannelSourcesRequireChannel ==
    (ParsedWellFormed /\ ~RootHasChannel)
        => LET found == FindAllDeep(ParsedRoot, "item")
           IN CASE tool \in ChannelSources ->
                     frame.stories = <<ErrorRecord(NoChannel)>>
                [] tool = "hackernews" ->
                     /\ Len(frame.stories) = Len(found)
                     /\ \A i \in 1..Len(found) : frame.stories[i] = hn_story(found[i])
                [] tool = "ainews" ->
                     /\ Len(frame.stories) = Min(1, Len(found))
                     /\ found # <<>> => frame.stories[1] = ainews_story(found[1])

\* C7 witness: a channel-checking parser was given a document without channel
\* that holds items.
C7_Witness ==
    /\ ParsedWellFormed
    /\ tool \in ChannelSources
    /\ ~RootHasChannel
    /\ Len(FindAllDeep(ParsedRoot, "item")) = MaxItems

StringFields(rec) == DOMAIN rec \ {"categories", "twitter_recap"}

\* C8: every article record a parser returns has a non-null string in each
\* declared string field, also when the field's element is present without
\* text.
C8_ArticleFieldsNeverNull ==
    (pc = "done" /\ frame.parsed)
        => \A i \in 1..Len(frame.stories) :
              ~IsErrorRecord(frame.stories[i])
                 => \A key \in StringFields(frame.stories[i]) :
                       frame.stories[i][key] # PyNone

\* C9: in a parser's result an error record is never accompanied by another
\* record: the list is article records only, or exactly one error record.
C9_ErrorRecordIsSole ==
    (pc = "done" /\ frame.parsed)
        => ((\E i \in 1..Len(frame.stories) : IsErrorRecord(frame.stories[i]))
               => Len(frame.stories) = 1)

\* C9 witness: the WSJ parser reported an error for a document that holds
\* several items.
C9_Witness ==
    /\ ParsedWellFormed
    /\ tool = "wsj"
    /\ Len(FindAllDeep(ParsedRoot, "item")) >= 2
    /\ frame.stories # <<>>
    /\ IsErrorRecord(frame.stories[1])

\* the formatted records of the first n items of the feed, joined
FirstRecordsJoined(n) ==
    Join(Separator, [i \in 1..n |-> FormatOf(tool, ArticleOf(tool, FeedItems[i]))])

MultiItemCallOnFeed ==
    /\ pc = "done"
    /\ tool \in MultiItemTools
    /\ frame.parsed
    /\ ~FromString(frame.rss_content).raised
    /\ RootHasChannel
    /\ count >= 0

\* C10 as stated: a multi-item tool, given a well-formed feed with N items and
\* a count c >= 0, returns the formatted records of exactly the first
\* min(c, N) items, in document order, joined by "\n---\n".
C10_FirstMinRecordsJoined ==
    MultiItemCallOnFeed
        => /\ ~frame.ret.raised
           /\ Chars(frame.ret.value)
                = Chars(FirstRecordsJoined(Min(count, Len(FeedItems))))

\* C10 amended: a multi-item tool, given a well-formed feed with N items and a
\* count c >= 0, returns the formatted records of exactly the first min(c, N)
\* items, in document order, joined by "\n---\n", when min(c, N) >= 1; when
\* min(c, N) = 0 it returns "No stories found.".
C10_FirstMinRecordsOrNoStories ==
    MultiItemCallOnFeed
        => /\ ~frame.ret.raised
           /\ Chars(frame.ret.value)
                = IF Min(count, Len(FeedItems)) = 0
                  THEN "No stories found."
                  ELSE Chars(FirstRecordsJoined(Min(count, Len(FeedItems))))

\* C10 witness: a call that had to cut a feed of two different items to one.
C10_Witness ==
    /\ MultiItemCallOnFeed
    /\ count = 1
    /\ Len(FeedItems) = 2
    /\ FeedItems[1] # FeedItems[2]

\* the elements extract_image_url looks at, in the order it looks at them
ImageCandidates(item) ==
    <<FindDeep(item, MediaContent), FindDeep(item, MediaThumbnail), Find(item, "enclosure")>>

\* C11: image URL extraction checks the Media RSS content element, then the
\* Media RSS thumbnail element, then a plain enclosure element, and returns
\* the url attribute of the first of them that is present with a url
\* attribute; when none carries a url the result is the empty string.
C11_FirstImageUrlWins ==
    pc = "extracted" =>
        LET cands == ImageCandidates(frame.stories[1])
            withUrl == {i \in 1..3 : cands[i] # NoElement /\ HasAttr(cands[i], "url")}
        IN /\ ~frame.ret.raised
           /\ \A i \in withUrl :
                 (\A h \in withUrl : i <= h)
                    => Chars(frame.ret.value)
                         = (CHOOSE p \in cands[i].attrib : p[1] = "url")[2]
           /\ withUrl = {} => Chars(frame.ret.value) = ""

\* C11 witness: an item whose content and thumbnail carry different URLs, and
\* the content URL was returned.
C11_Witness ==
    /\ pc = "extracted"
    /\ LET cands == ImageCandidates(frame.stories[1])
       IN /\ cands[1] # NoElement /\ HasAttr(cands[1], "url")
          /\ cands[2] # NoElement /\ HasAttr(cands[2], "url")
          /\ Attr(cands[1], "url") # Attr(cands[2], "url")
          /\ frame.ret.value = Attr(cands[1], "url")

\* the content after its entities are decoded
Decoded == HtmlUnescape(frame.rss_content)

\* where the "AI Twitter Recap" heading marker stands in the decoded content
MarkerStarts ==
    {i \in 1..(Len(Decoded) - 2) :
        Decoded[i].v = "<h1>" /\ Decoded[i + 1].v = "AI Twitter Recap"
        /\ Decoded[i + 2].v = "</h1>"}

\* the first token after the first marker, and the last token before the next
\* top-level heading (or the last token of the content)
SectionFrom == (CHOOSE i \in MarkerStarts : \A h \in MarkerStarts : i <= h) + 3
SectionTo ==
    LET headings == {j \in SectionFrom..Len(Decoded) : Decoded[j].v = "<h1>"}
    IN IF headings = {} THEN Len(Decoded)
       ELSE (CHOOSE j \in headings : \A h \in headings : j <= h) - 1

\* the list-item fragments of the section: an <li> and its </li>, both inside
FragmentPairs ==
    {p \in (SectionFrom..SectionTo) \X (SectionFrom..SectionTo) :
        /\ p[1] < p[2]
        /\ Decoded[p[1]].v = "<li>"
        /\ Decoded[p[2]].v = "</li>"
        /\ \A j \in (p[1] + 1)..(p[2] - 1) : Decoded[j].v \notin {"<li>", "</li>"}}

\* the k-th fragment in order of appearance
Fragment(k) ==
    LET p == CHOOSE q \in FragmentPairs :
                 Cardinality({r \in FragmentPairs : r[1] <= q[1]}) = k
    IN SubSeq(Decoded, p[1] + 1, p[2] - 1)

\* C12: for every list-item fragment, if the tag-stripped text contains a
\* colon anywhere (also after a line break inside the text) the title is what
\* stands before the first colon, trimmed, and the description is the rest
\* after that colon, trimmed; without a colon the title is the whole stripped
\* text and the description is empty.
C12_ColonSplitsTitle ==
    (pc = "recap" /\ MarkerStarts # {}) =>
        \A k \in 1..Len(frame.ret.value) :
            k <= Cardinality(FragmentPairs) =>
                LET text == Strip(StripTags(Fragment(k)))
                    colon == IndexOf(text, 1, ":")
                    item == frame.ret.value[k]
                IN IF colon # 0
                   THEN /\ Chars(item.title) = Chars(Strip(SubSeq(text, 1, colon - 1)))
                        /\ Chars(item.description)
                             = Chars(Strip(SubSeq(text, colon + 1, Len(text))))
                   ELSE /\ Chars(item.title) = Chars(text)
                        /\ Chars(item.description) = ""

\* C13: extract_twitter_recap returns one item for each list-item fragment
\* that lies between the "AI Twitter Recap" heading and the next top-level
\* heading (or the end of the content), in order of appearance, and nothing
\* for list items after the next heading; when the heading marker does not
\* occur the result is the empty sequence and no error.
C13_ItemsOfRecapSectionOnly ==
    pc = "recap" =>
        /\ ~frame.ret.raised
        /\ IF MarkerStarts = {} THEN frame.ret.value = <<>>
           ELSE /\ Len(frame.ret.value) = Cardinality(FragmentPairs)
                /\ \A k \in 1..Len(frame.ret.value) :
                      frame.ret.value[k] = recap_item(Fragment(k))

\* C13 witness: two items were returned for a section that is followed by
\* another heading with a list item of its own.
C13_Witness ==
    /\ pc = "recap"
    /\ MarkerStarts # {}
    /\ Len(frame.ret.value) = 2
    /\ frame.ret.value[1] # frame.ret.value[2]
    /\ \E j \in (SectionTo + 1)..Len(Decoded) : Decoded[j].v = "</li>"

\* the texts written inside the creator tags of the document, in the order
\* they are written
CreatorTexts ==
    LET doc == frame.rss_content
        at == {j \in 1..(Len(doc) - 1) :
                 /\ doc[j].k = "open" /\ doc[j].v = DcCreator
                 /\ doc[j + 1].k = "text"}
    IN SelectAt([j \in 1..Len(doc) |-> IF j < Len(doc) THEN <<doc[j + 1]>> ELSE <<>>], at)

\* C14: the WSJ author field of an item is the texts of all its Dublin Core
\* creator elements that have text, in document order, joined by ", "; with
\* no creator element it is the empty string.
C14_AuthorsJoined ==
    pc = "parsed" =>
        /\ ~frame.ret.raised
        /\ Len(frame.stories) = 1
        /\ ~IsErrorRecord(frame.stories[1])
        /\ Chars(frame.stories[1].author) = Chars(Join(S(", "), CreatorTexts))

\* C14 witness: an item with the creators "Alice" and "Bob" and one without
\* text between them got the author "Alice, Bob".
C14_Witness ==
    /\ pc = "parsed"
    /\ Len(CreatorTexts) = 2
    /\ \E j \in 1..Len(frame.rss_content) :
          /\ frame.rss_content[j] = Empty(DcCreator, {})
          /\ frame.rss_content[j - 1] = Close(DcCreator)
          /\ frame.rss_content[j + 1] = Open(DcCreator, {})
    /\ Chars(frame.stories[1].author) = "Alice, Bob"

\* the number of formatted records in a returned string
RecordCount(text) == Cardinality({i \in 1..Len(text) : text[i] = Txt("\nTitle: ")})

\* C16: for every integer count, zero and negative ones too, and every feed
\* with N items, the output of a multi-item tool holds at most max(count, 0)
\* formatted records; with count <= 0 the tool returns exactly
\* "No stories found.".
C16_AtMostCountRecords ==
    (/\ pc = "done"
     /\ tool \in MultiItemTools
     /\ ParsedWellFormed
     /\ tool \in ChannelSources => RootHasChannel)
        => /\ ~frame.ret.raised
           /\ RecordCount(frame.ret.value) <= Max(count, 0)
           /\ count <= 0 => Chars(frame.ret.value) = "No stories found."

\* what call i returns when it is the only call: the tool run from its first
\* line to its last on the call's own arguments and the answer to its request
RunAlone(i) == RunTool(calls[i].tool, calls[i].feed_url, calls[i].count, calls[i].net)

InFlight(i) == calls[i].pc \in {"awaiting", "closing"}

\* C15: calls in flight together are independent: under every interleaving
\* at the suspension points of the fetch, what a call returns depends only on
\* its own feed_url, count and fetched body and is what it returns when run
\* alone; nothing a call wrote is read by another call or is left for a later
\* call (module-level state stays as it was, a returned call has no locals).
C15_CallsAreIndependent ==
    /\ namespace_map = RegisteredNamespaces
    /\ \A i \in CallIds :
          /\ calls[i].pc = "done" => calls[i].frame.ret = RunAlone(i).ret
          /\ calls[i].pc = "idle" => calls[i] = IdleCall

\* C15 witness: a call has returned while another call, of another tool and
\* with another body, is suspended in its fetch.
C15_Witness ==
    \E i, j \in CallIds :
        /\ calls[i].pc = "done"
        /\ calls[j].pc = "closing"
        /\ calls[i].tool # calls[j].tool
        /\ calls[i].net.kind = "response"
        /\ calls[i].net # calls[j].net
        /\ Len(calls[i].frame.ret.value) > 1
====
